---- MODULE Spec2Model ----
(***************************************************************************)
(* Model of the three "Best-Fit" bin-packing heuristics of best-fit.cpp:   *)
(* best_fit (array scan), best_fit_heap (max-heap of bin loads) and        *)
(* best_fit_lookup (histogram of remaining capacities).                    *)
(*                                                                         *)
(* One problem instance (n, K, min_size, objects) is fixed by Init; the    *)
(* heuristics are then called one after the other on that instance.  Each  *)
(* call is split into the call itself (allocation and initialisation), one *)
(* action per iteration of the item loop, and the return.  The heuristics  *)
(* share no state, so the order of the calls is immaterial.                *)
(***************************************************************************)
EXTENDS Integers, Sequences, FiniteSets

\* ---- bounds of the model ------------------------------------------------
MaxN == 5          \* largest number of objects
MaxK == 5          \* largest bin capacity
MaxOver == 2       \* how far an oversized object may exceed K (SpecOversized)
MaxNOver == 4      \* largest number of objects in SpecOversized

\* Sizes, loads and counters are unsigned int in the source.  Within the
\* bounds above every sum stays far below 2^32 and min_size <= K, so no
\* unsigned operation wraps and plain integer arithmetic is exact.

\* value of a result that has not been returned yet
NoResult == 0 - 1

VARIABLES
    n,              \* global n: number of objects
    K,              \* global K: bin capacity
    min_size,       \* global min_size: smallest admissible object size
    objects,        \* the objects, indexed 0..n-1
    pc,             \* "idle", the running heuristic, or "crashed"
    i,              \* loop index of the running heuristic
    bins,           \* best_fit: loads of the open bins (slot n lies past the allocation)
    positions,      \* best_fit: bin index recorded for each object
    num_open_bins,  \* best_fit
    num_full_bins,  \* best_fit
    placed_load,    \* best_fit: load of the bin that received the last object
    oob,            \* an array was accessed outside of its allocation
    elements,       \* best_fit_heap: simple_heap::elements, 1-indexed
    num_bins,       \* best_fit_heap
    best_bin,       \* best_fit_heap: best_bin of the last iteration
    pruned,         \* best_fit_heap: the last traversal visited a node that did not fit
    skipped_fit,    \* best_fit_heap: the last iteration opened a bin although a bin fitted
    bin_count,      \* best_fit_lookup: histogram indexed by remaining capacity
    ret_best_fit,   \* value returned by best_fit
    ret_heap,       \* value returned by best_fit_heap
    ret_lookup      \* value returned by best_fit_lookup

instance == <<n, K, min_size, objects>>
bf_vars == <<bins, positions, num_open_bins, num_full_bins, placed_load, oob>>
heap_vars == <<elements, num_bins, best_bin, pruned, skipped_fit>>
lookup_vars == <<bin_count>>
rets == <<ret_best_fit, ret_heap, ret_lookup>>
vars == <<n, K, min_size, objects, pc, i, bins, positions, num_open_bins,
          num_full_bins, placed_load, oob, elements, num_bins, best_bin, pruned,
          skipped_fit, bin_count, ret_best_fit, ret_heap, ret_lookup>>

\* ---- helpers --------------------------------------------------------------
RECURSIVE SumTo(_, _)
\* f[0] + ... + f[m-1]
SumTo(f, m) == IF m <= 0 THEN 0 ELSE f[m - 1] + SumTo(f, m - 1)

CeilDiv(a, b) == (a + b - 1) \div b

InitCommon ==
    /\ pc = "idle"
    /\ i = 0
    /\ bins = <<>>
    /\ positions = <<>>
    /\ num_open_bins = 0
    /\ num_full_bins = 0
    /\ placed_load = 0
    /\ oob = FALSE
    /\ elements = <<>>
    /\ num_bins = 0
    /\ best_bin = 0
    /\ pruned = FALSE
    /\ skipped_fit = FALSE
    /\ bin_count = <<>>
    /\ ret_best_fit = NoResult
    /\ ret_heap = NoResult
    /\ ret_lookup = NoResult

\* valid instances: every object is positive and at most K
Init ==
    /\ K \in 1..MaxK
    /\ min_size \in 1..K
    /\ n \in 0..MaxN
    /\ objects \in [0..(n - 1) -> 1..K]
    /\ InitCommon

\* instances that may contain objects larger than K
InitOversized ==
    /\ K \in 1..MaxK
    /\ min_size \in 1..K
    /\ n \in 0..MaxNOver
    /\ objects \in [0..(n - 1) -> 1..(K + MaxOver)]
    /\ InitCommon

\* ---- best_fit -------------------------------------------------------------
limit_capacity == K - min_size

RECURSIVE ScanBins_NoCapacityCheck(_, _, _, _)
\* ScanBins without the test temp_cap <= K
ScanBins_NoCapacityCheck(j, obj, bb, bc) ==
    IF j >= num_open_bins THEN [best_bin |-> bb, best_cap |-> bc]
    ELSE LET temp_cap == bins[j] + obj
         IN IF temp_cap > bc
            THEN ScanBins_NoCapacityCheck(j + 1, obj, j, temp_cap)
            ELSE ScanBins_NoCapacityCheck(j + 1, obj, bb, bc)

RECURSIVE ScanBins_FirstFit(_, _, _, _)
\* ScanBins keeping the first bin that fits instead of the tightest one
ScanBins_FirstFit(j, obj, bb, bc) ==
    IF j >= num_open_bins THEN [best_bin |-> bb, best_cap |-> bc]
    ELSE LET temp_cap == bins[j] + obj
         IN IF temp_cap <= K /\ bb = n
            THEN ScanBins_FirstFit(j + 1, obj, j, temp_cap)
            ELSE ScanBins_FirstFit(j + 1, obj, bb, bc)

RECURSIVE ScanBins(_, _, _, _)
\* the inner loop over the open bins j..num_open_bins-1, lines 41-49
ScanBins(j, obj, bb, bc) ==
    IF j >= num_open_bins THEN [best_bin |-> bb, best_cap |-> bc]
    ELSE LET temp_cap == bins[j] + obj
         IN IF temp_cap <= K /\ temp_cap > bc
            THEN ScanBins(j + 1, obj, j, temp_cap)
            ELSE ScanBins(j + 1, obj, bb, bc)

BestFitResult == num_open_bins + num_full_bins

CallBestFit ==
    /\ pc = "idle"
    /\ ret_best_fit = NoResult
    /\ pc' = "best_fit"
    /\ i' = 0
    /\ num_open_bins' = 1
    /\ num_full_bins' = 0
    /\ placed_load' = 0
    /\ bins' = [j \in 0..n |-> 0]
    /\ positions' = [k \in 0..(n - 1) |-> 0]
    /\ oob' = FALSE
    /\ UNCHANGED <<instance, heap_vars, lookup_vars, rets>>

\* place objects[i] into the best open bin and retire the bin if almost full
BestFitPlace(b) ==
    LET load == bins[b] + objects[i]
    IN /\ positions' = [positions EXCEPT ![i] = b]
       /\ placed_load' = load
       /\ IF load > limit_capacity
          THEN /\ num_open_bins' = num_open_bins - 1
               /\ num_full_bins' = num_full_bins + 1
               /\ bins' = [bins EXCEPT ![b] =
                              IF b = num_open_bins - 1 THEN load
                              ELSE bins[num_open_bins - 1]]
          ELSE /\ bins' = [bins EXCEPT ![b] = load]
               /\ UNCHANGED <<num_open_bins, num_full_bins>>
       /\ pc' = "best_fit"
       /\ UNCHANGED oob

\* open a new bin for objects[i]; the store at slot n is outside the array
BestFitCreate ==
    /\ bins' = [bins EXCEPT ![num_open_bins] = objects[i]]
    /\ positions' = [positions EXCEPT ![i] = num_open_bins]
    /\ placed_load' = objects[i]
    /\ num_open_bins' = num_open_bins + 1
    /\ UNCHANGED num_full_bins
    /\ IF num_open_bins >= n
       THEN oob' = TRUE /\ pc' \in {"best_fit", "crashed"}
       ELSE UNCHANGED oob /\ pc' = "best_fit"

BestFitStep ==
    /\ pc = "best_fit"
    /\ i < n
    /\ LET s == ScanBins(0, objects[i], n, 0)
       IN IF s.best_bin < n THEN BestFitPlace(s.best_bin) ELSE BestFitCreate
    /\ i' = i + 1
    /\ UNCHANGED <<instance, heap_vars, lookup_vars, rets>>

BestFitReturn ==
    /\ pc = "best_fit"
    /\ i >= n
    /\ ret_best_fit' = BestFitResult
    /\ bins' = <<>>
    /\ pc' = "idle"
    /\ UNCHANGED <<instance, i, positions, num_open_bins, num_full_bins,
                   placed_load, oob, heap_vars, lookup_vars, ret_heap, ret_lookup>>

NextBestFit == CallBestFit \/ BestFitStep \/ BestFitReturn

SpecOversized == InitOversized /\ [][NextBestFit]_vars

\* ---- simple_heap (contract of the bin registry) ---------------------------
IsMaxHeap(e, m) ==
    \A j \in 1..m :
        /\ (2 * j <= m => e[j] >= e[2 * j])
        /\ (2 * j + 1 <= m => e[j] >= e[2 * j + 1])

Swap(e, a, b) == [e EXCEPT ![a] = e[b], ![b] = e[a]]

RECURSIVE SiftUp(_, _)
SiftUp(e, j) ==
    IF j > 1 /\ e[j \div 2] < e[j]
    THEN SiftUp(Swap(e, j, j \div 2), j \div 2)
    ELSE e

\* push: insert a new leaf and sift it up
push(e, value) == SiftUp(Append(e, value), Len(e) + 1)

RECURSIVE reheap_down(_, _)
\* reheap_down: sift the element at position j down below its larger child
reheap_down(e, j) ==
    LET m == Len(e)
        l == 2 * j
        r == 2 * j + 1
        c == IF r <= m /\ e[r] > e[l] THEN r ELSE l
    IN IF l <= m /\ e[c] > e[j] THEN reheap_down(Swap(e, j, c), c) ELSE e

\* ---- best_fit_heap --------------------------------------------------------
\* RootFits without the capacity test on the root
RootFits_NoCapacityCheck(obj) == num_bins # 0

\* line 100: the heap is not empty and the root can take the object
RootFits(obj) == num_bins # 0 /\ elements[1] + obj <= K

RECURSIVE Traverse_LastBest(_, _, _, _, _)
\* Traverse taking a node on temp_cap >= best_cap instead of temp_cap > best_cap
Traverse_LastBest(q, obj, bb, bc, pr) ==
    IF q = <<>> THEN [best_bin |-> bb, best_cap |-> bc, pruned |-> pr]
    ELSE LET j == Head(q)
             temp_cap == elements[j] + obj
         IN IF temp_cap <= K
            THEN Traverse_LastBest(Tail(q)
                            \o (IF 2 * j <= num_bins THEN <<2 * j>> ELSE <<>>)
                            \o (IF 2 * j + 1 <= num_bins THEN <<2 * j + 1>> ELSE <<>>),
                          obj,
                          IF temp_cap >= bc THEN j ELSE bb,
                          IF temp_cap >= bc THEN temp_cap ELSE bc,
                          pr)
            ELSE Traverse_LastBest(Tail(q), obj, bb, bc, TRUE)

RECURSIVE Traverse(_, _, _, _, _)
\* the breadth-first search of lines 103-126 over heap_queue q
Traverse(q, obj, bb, bc, pr) ==
    IF q = <<>> THEN [best_bin |-> bb, best_cap |-> bc, pruned |-> pr]
    ELSE LET j == Head(q)
             temp_cap == elements[j] + obj
         IN IF temp_cap <= K
            THEN Traverse(Tail(q)
                            \o (IF 2 * j <= num_bins THEN <<2 * j>> ELSE <<>>)
                            \o (IF 2 * j + 1 <= num_bins THEN <<2 * j + 1>> ELSE <<>>),
                          obj,
                          IF temp_cap > bc THEN j ELSE bb,
                          IF temp_cap > bc THEN temp_cap ELSE bc,
                          pr)
            ELSE Traverse(Tail(q), obj, bb, bc, TRUE)

CallBestFitHeap ==
    /\ pc = "idle"
    /\ ret_best_fit # NoResult
    /\ ret_heap = NoResult
    /\ pc' = "best_fit_heap"
    /\ i' = 0
    /\ num_bins' = 0
    /\ elements' = <<>>
    /\ best_bin' = n
    /\ pruned' = FALSE
    /\ skipped_fit' = FALSE
    /\ UNCHANGED <<instance, bf_vars, lookup_vars, rets>>

HeapStep ==
    /\ pc = "best_fit_heap"
    /\ i < n
    /\ LET obj == objects[i]
           t == IF RootFits(obj) THEN Traverse(<<1>>, obj, n, 0, FALSE)
                ELSE [best_bin |-> n, best_cap |-> 0, pruned |-> FALSE]
       IN /\ IF t.best_bin < n
             THEN /\ elements' = reheap_down(
                        [elements EXCEPT ![t.best_bin] = @ + obj], t.best_bin)
                  /\ UNCHANGED num_bins
             ELSE /\ elements' = push(elements, obj)
                  /\ num_bins' = num_bins + 1
          /\ best_bin' = t.best_bin
          /\ pruned' = t.pruned
          /\ skipped_fit' = (t.best_bin >= n
                             /\ \E j \in 1..num_bins : elements[j] + obj <= K)
    /\ i' = i + 1
    /\ UNCHANGED <<instance, pc, bf_vars, lookup_vars, rets>>

HeapReturn ==
    /\ pc = "best_fit_heap"
    /\ i >= n
    /\ ret_heap' = num_bins
    /\ elements' = <<>>
    /\ pc' = "idle"
    /\ UNCHANGED <<instance, i, bf_vars, num_bins, best_bin, pruned,
                   skipped_fit, lookup_vars, ret_best_fit, ret_lookup>>

\* ---- best_fit_lookup ------------------------------------------------------
RECURSIVE FindBin(_)
\* lines 177-178: the smallest remaining capacity >= cur_size with a bin
FindBin(cur_size) ==
    IF cur_size > K THEN cur_size
    ELSE IF bin_count[cur_size] = 0 THEN FindBin(cur_size + 1)
    ELSE cur_size

\* MoveBin without the decrement of the source slot
MoveBin_NoDecrement(bc, cur_size, req_size) ==
    [bc EXCEPT ![cur_size - req_size] = @ + 1]

\* lines 180-181: move one bin from cur_size to cur_size - req_size
MoveBin(bc, cur_size, req_size) ==
    [[bc EXCEPT ![cur_size] = @ - 1] EXCEPT ![cur_size - req_size] = @ + 1]

\* LookupResult with the loop bound i <= K instead of i < K
LookupResult_CountsUnopened == SumTo(bin_count, K + 1)

\* lines 187-188: the bins with less than the full capacity left
LookupResult == SumTo(bin_count, K)

CallBestFitLookup ==
    /\ pc = "idle"
    /\ ret_heap # NoResult
    /\ ret_lookup = NoResult
    /\ pc' = "best_fit_lookup"
    /\ i' = 0
    /\ bin_count' = [c \in 0..K |-> IF c = K THEN n ELSE 0]
    /\ UNCHANGED <<instance, bf_vars, heap_vars, rets>>

LookupStep ==
    /\ pc = "best_fit_lookup"
    /\ i < n
    /\ LET req_size == objects[i]
           cur_size == FindBin(objects[i])
       IN IF cur_size \in 0..K /\ cur_size - req_size \in 0..K
          THEN /\ bin_count' = MoveBin(bin_count, cur_size, req_size)
               /\ UNCHANGED <<pc, oob>>
          ELSE /\ oob' = TRUE
               /\ pc' \in {"best_fit_lookup", "crashed"}
               /\ UNCHANGED bin_count
    /\ i' = i + 1
    /\ UNCHANGED <<instance, bins, positions, num_open_bins, num_full_bins,
                   placed_load, heap_vars, rets>>

LookupReturn ==
    /\ pc = "best_fit_lookup"
    /\ i >= n
    /\ ret_lookup' = LookupResult
    /\ bin_count' = <<>>
    /\ pc' = "idle"
    /\ UNCHANGED <<instance, i, bf_vars, heap_vars, ret_best_fit, ret_heap>>

Next ==
    \/ CallBestFit \/ BestFitStep \/ BestFitReturn
    \/ CallBestFitHeap \/ HeapStep \/ HeapReturn
    \/ CallBestFitLookup \/ LookupStep \/ LookupReturn

Spec == Init /\ [][Next]_vars

\* ---- properties -----------------------------------------------------------
\* min_size is a lower bound on every object size
LowerBounded == \A k \in 0..(n - 1) : min_size <= objects[k]

\* sum of the objects
TotalSize == SumTo(objects, n)

\* sum of the objects whose recorded position is b
AssignedLoad(b) ==
    SumTo([k \in 0..(n - 1) |-> IF positions[k] = b THEN objects[k] ELSE 0], n)

AllReturned ==
    ret_best_fit # NoResult /\ ret_heap # NoResult /\ ret_lookup # NoResult

\* C1: after best_fit has run on an instance with n >= 1 and
\* min_size <= size <= K, the objects recorded at any one bin index sum to at
\* most K.
C1_AssignedLoadWithinK ==
    (ret_best_fit # NoResult /\ n >= 1 /\ LowerBounded)
        => \A b \in 0..n : AssignedLoad(b) <= K

\* C2: after every processed object no bin holds more than K: not the bin
\* that best_fit just filled nor any of its open bins, no heap element of
\* best_fit_heap, and best_fit_lookup never moves a bin to a slot outside 0..K.
C2_NoBinOverCapacity ==
    /\ pc # "crashed"
    /\ pc = "best_fit" =>
          placed_load <= K /\ \A j \in 0..(num_open_bins - 1) : bins[j] <= K
    /\ pc = "best_fit_heap" => \A j \in 1..num_bins : elements[j] <= K
    /\ pc = "best_fit_lookup" =>
          ~oob /\ DOMAIN bin_count = 0..K /\ \A c \in 0..K : bin_count[c] >= 0

\* C2 witness: best_fit_heap has filled its root to exactly K by an in-place
\* placement.
C2_Witness ==
    /\ pc = "best_fit_heap"
    /\ i = n
    /\ num_bins >= 2
    /\ best_bin = 1
    /\ elements[1] = K

\* C3: each returned bin count is at least ceil(sum/K) and at most n (so 0
\* for n = 0).
C3_BinCountBounds ==
    /\ ret_best_fit # NoResult =>
          CeilDiv(TotalSize, K) <= ret_best_fit /\ ret_best_fit <= n
    /\ ret_heap # NoResult =>
          CeilDiv(TotalSize, K) <= ret_heap /\ ret_heap <= n
    /\ ret_lookup # NoResult =>
          CeilDiv(TotalSize, K) <= ret_lookup /\ ret_lookup <= n

\* C4: on the same instance best_fit_lookup returns at most what best_fit
\* returns and at most what best_fit_heap returns.
C4_LookupNotWorse ==
    AllReturned => ret_lookup <= ret_best_fit /\ ret_lookup <= ret_heap

\* C4 witness: all three have returned and best_fit_lookup used strictly
\* fewer bins than best_fit_heap.
C4_Witness ==
    AllReturned /\ n >= 3 /\ ret_lookup < ret_heap /\ ret_lookup <= ret_best_fit

\* C5: in best_fit an object larger than K starts a bin that receives nothing
\* more and stays open, the run does not fail, and no access to the open-bin
\* array uses an index >= n.
C5_OversizedHandled ==
    /\ pc # "crashed"
    /\ ~oob
    /\ pc = "best_fit" =>
          \A v \in (K + 1)..(K + MaxOver) :
              Cardinality({j \in 0..(num_open_bins - 1) : bins[j] = v})
                  = Cardinality({k \in 0..(i - 1) : objects[k] = v})

\* C6: after each processed object every bin in slots 0..num_open_bins-1 has
\* load <= K - min_size.
C6_OpenBinsBelowLimit ==
    (pc = "best_fit" /\ LowerBounded)
        => \A j \in 0..(num_open_bins - 1) : bins[j] <= limit_capacity

\* C7: after every processed object elements[1..num_bins] is a max-heap.
C7_HeapProperty ==
    pc = "best_fit_heap" =>
        Len(elements) = num_bins /\ IsMaxHeap(elements, num_bins)

\* C7 witness: a heap of at least three bins whose last operation was an
\* in-place increase, with a child strictly below the root.
C7_Witness ==
    /\ pc = "best_fit_heap"
    /\ i >= 4
    /\ num_bins >= 3
    /\ best_bin < n
    /\ elements[1] > elements[3]

\* C8: at every step of the loop of best_fit_lookup the entries of
\* bin_count[0..K] sum to n.
C8_HistogramConserved ==
    pc = "best_fit_lookup" => SumTo(bin_count, K + 1) = n

\* C8 witness: all objects processed, with a completely full bin and an
\* unopened bin in the histogram.
C8_Witness ==
    /\ pc = "best_fit_lookup"
    /\ i = n
    /\ n >= 3
    /\ bin_count[0] >= 1
    /\ bin_count[K] >= 1

C10_ArrayEqualsLookup ==
    (AllReturned /\ n >= 1 /\ LowerBounded) => ret_best_fit = ret_lookup

\* C10 witness: both returned the same count on an instance where best_fit
\* retired a bin and kept another open.
C10_Witness ==
    /\ AllReturned
    /\ n >= 3
    /\ LowerBounded
    /\ num_full_bins >= 1
    /\ num_open_bins >= 1
    /\ ret_best_fit = ret_lookup
====
